---- MODULE Spec2Model ----
(***************************************************************************)
(* MetroPulse NYC: the narrative endpoint of backend/app/main.py           *)
(* (get_station_analysis with its in-memory NARRATIVES_CACHE, the          *)
(* narratives.json file and the optional LLM polish) and the pure engines  *)
(* it calls (GeoEngine.get_borough, calculate_percentile,                  *)
(* get_clean_time_dna, RuleBasedNarrative.generate), and the pulse cache   *)
(* that preload_data builds at startup.                                    *)
(*                                                                         *)
(* Spec is the endpoint served by a pool of threads; GeoSpec, PctSpec,     *)
(* DnaSpec, GenSpec and PulseSpec each apply one function to inputs drawn  *)
(* around its thresholds.                                                  *)
(*                                                                         *)
(* Numbers.  Coordinates are integers in thousandths of a degree           *)
(* (40.835 is 40835), so every threshold of get_borough is exact.  A       *)
(* percentile is an exact fraction [num, den]; a pulse is 24 numerators    *)
(* over one common denominator.  Python computes these in binary floating  *)
(* point; the model computes them exactly.                                 *)
(*                                                                         *)
(* Python None is the empty sequence <<>>, a present value v is <<v>>.     *)
(* A string the code inspects character by character (a station name) is   *)
(* a sequence of one-character strings.                                    *)
(***************************************************************************)
EXTENDS Integers, Sequences, FiniteSets, TLC

None == <<>>
Some(v) == <<v>>
Val(o) == o[1]

(***************************************************************************)
(* GeoEngine.get_borough                                                   *)
(***************************************************************************)
BRONX_LAT == 40835
SI_LON == -74050
QUEENS_LON == -73850
ZONE_A_LAT == 40760
ZONE_A_LON == -73935
ZONE_B_LAT == 40740
ZONE_B_LON == -73960
RIVER_BASE_LON == -74010
RIVER_BASE_LAT == 40680
RIVER_SLOPE_NUM == 4
RIVER_SLOPE_DEN == 5
MARBLE_HILL_LAT == 40880
ROCKAWAY_LAT == 40600
ROCKAWAY_LON == -73900
RIDGEWOOD_LAT == 40700
RIDGEWOOD_LON == -73910
LIC_LAT == 40735
OZONE_LON == -73860

\* lon < east_river_border, with east_river_border = -74.01 + (lat - 40.68) * 0.8
\* and 0.8 = 4/5: both sides are multiplied by 5.
WestOfRiver(lat, lon) ==
    RIVER_SLOPE_DEN * lon
        < RIVER_SLOPE_DEN * RIVER_BASE_LON + RIVER_SLOPE_NUM * (lat - RIVER_BASE_LAT)

\* main.py 193-214: the three zones of the East River diagonal
is_manhattan(lat, lon) ==
    IF lat > ZONE_A_LAT THEN lon < ZONE_A_LON
    ELSE IF lat > ZONE_B_LAT THEN lon < ZONE_B_LON
    ELSE WestOfRiver(lat, lon)

\* main.py 221-247: Brooklyn against Queens, for a point that is not Manhattan
\* The last test of main.py 244 without its latitude condition, so that the
\* latitude 40.70 itself belongs to the band below it.
BrooklynOrQueens_inclusive(lat, lon) ==
    IF lat < ROCKAWAY_LAT
    THEN (IF lon > ROCKAWAY_LON THEN "Queens" ELSE "Brooklyn")
    ELSE IF lat > RIDGEWOOD_LAT
    THEN (IF lon > RIDGEWOOD_LON THEN "Queens"
          ELSE IF lat > LIC_LAT THEN "Queens"
          ELSE "Brooklyn")
    ELSE IF lon > OZONE_LON THEN "Queens"
    ELSE "Brooklyn"

\* main.py 221-247
BrooklynOrQueens(lat, lon) ==
    IF lat < ROCKAWAY_LAT
    THEN (IF lon > ROCKAWAY_LON THEN "Queens" ELSE "Brooklyn")
    ELSE IF lat > RIDGEWOOD_LAT
    THEN (IF lon > RIDGEWOOD_LON THEN "Queens"
          ELSE IF lat > LIC_LAT THEN "Queens"
          ELSE "Brooklyn")
    ELSE IF lat < RIDGEWOOD_LAT /\ lon > OZONE_LON THEN "Queens"
    ELSE "Brooklyn"

\* A cascade with the Queens test ahead of the Staten Island test and the
\* Bronx test last: the order of main.py 180-187 changed.
get_borough_reordered(lat, lon) ==
    IF lat = None \/ lon = None THEN "NYC"
    ELSE IF Val(lon) > QUEENS_LON THEN "Queens"
    ELSE IF Val(lon) < SI_LON THEN "Staten Island"
    ELSE IF is_manhattan(Val(lat), Val(lon)) THEN "Manhattan"
    ELSE IF Val(lat) > BRONX_LAT THEN "Bronx"
    ELSE BrooklynOrQueens(Val(lat), Val(lon))

\* A classifier without the None guard of main.py 177 that falls through
\* to the last label.
get_borough_noguard(lat, lon) ==
    IF lat = None \/ lon = None THEN "Brooklyn"
    ELSE IF Val(lat) > BRONX_LAT THEN "Bronx"
    ELSE IF Val(lon) < SI_LON THEN "Staten Island"
    ELSE IF Val(lon) > QUEENS_LON THEN "Queens"
    ELSE IF is_manhattan(Val(lat), Val(lon))
    THEN (IF Val(lat) > MARBLE_HILL_LAT THEN "Bronx" ELSE "Manhattan")
    ELSE BrooklynOrQueens(Val(lat), Val(lon))

get_borough(lat, lon) ==
    IF lat = None \/ lon = None THEN "NYC"
    ELSE IF Val(lat) > BRONX_LAT THEN "Bronx"
    ELSE IF Val(lon) < SI_LON THEN "Staten Island"
    ELSE IF Val(lon) > QUEENS_LON THEN "Queens"
    ELSE IF is_manhattan(Val(lat), Val(lon))
    THEN (IF Val(lat) > MARBLE_HILL_LAT THEN "Bronx" ELSE "Manhattan")
    ELSE BrooklynOrQueens(Val(lat), Val(lon))

(***************************************************************************)
(* normalize_key                                                           *)
(***************************************************************************)
UpperChars == <<"A","B","C","D","E","F","G","H","I","J","K","L","M",
                "N","O","P","Q","R","S","T","U","V","W","X","Y","Z">>
LowerChars == <<"a","b","c","d","e","f","g","h","i","j","k","l","m",
                "n","o","p","q","r","s","t","u","v","w","x","y","z">>
DigitChars == <<"0","1","2","3","4","5","6","7","8","9">>

Range(f) == {f[i] : i \in DOMAIN f}

\* str.lower() of one character
LowerOf(c) ==
    IF c \in Range(UpperChars)
    THEN LowerChars[CHOOSE i \in DOMAIN UpperChars : UpperChars[i] = c]
    ELSE c

IsAlnum(c) == c \in Range(UpperChars) \cup Range(LowerChars) \cup Range(DigitChars)

RECURSIVE StripLower(_)
StripLower(name) ==
    IF name = <<>> THEN <<>>
    ELSE IF IsAlnum(Head(name)) THEN <<LowerOf(Head(name))>> \o StripLower(Tail(name))
    ELSE StripLower(Tail(name))

\* re.sub(r'[^a-zA-Z0-9]', '', str(name)).lower(); a falsy name gives ""
normalize_key(name) == IF name = <<>> THEN <<>> ELSE StripLower(name)

(***************************************************************************)
(* calculate_percentile                                                    *)
(***************************************************************************)
RECURSIVE GCD(_, _)
GCD(a, b) == IF b = 0 THEN a ELSE GCD(b, a % b)

\* the fraction n/d in lowest terms (d > 0, n >= 0)
Frac(n, d) == LET g == GCD(n, d) IN [num |-> n \div g, den |-> d \div g]
FracGT(f, k) == f.num > k * f.den
FracLT(f, k) == f.num < k * f.den
FracLE(f, g) == f.num * g.den <= g.num * f.den
\* int(x) of a non-negative x
FracInt(f) == f.num \div f.den

RECURSIVE CountLess(_, _)
CountLess(data, value) ==
    IF data = <<>> THEN 0
    ELSE (IF Head(data) < value THEN 1 ELSE 0) + CountLess(Tail(data), value)

\* the count of main.py 334 taken with x <= value
percentile_of_atmost(data, value) ==
    IF data = <<>> THEN Frac(0, 1)
    ELSE LET v == IF value = None THEN 0 ELSE Val(value)
         IN  Frac(CountLess(data, v + 1) * 100, Len(data))

\* the value's rank, counting the value itself, instead of the count below it
percentile_of_rank(data, value) ==
    IF data = <<>> THEN Frac(0, 1)
    ELSE LET v == IF value = None THEN 0 ELSE Val(value)
         IN  Frac((IF CountLess(data, v) < Len(data)
                   THEN CountLess(data, v) + 1 ELSE Len(data)) * 100, Len(data))

\* main.py 329-335, on the distribution itself
percentile_of(data, value) ==
    IF data = <<>> THEN Frac(0, 1)
    ELSE LET v == IF value = None THEN 0 ELSE Val(value)
         IN  Frac(CountLess(data, v) * 100, Len(data))

(***************************************************************************)
(* get_clean_time_dna                                                      *)
(* A pulse is [num, den, nan]: the value of hour h (0-based) is            *)
(* num[h+1] / den, and nan is the set of positions holding NaN.            *)
(***************************************************************************)
HOURS == 24
FALLBACK_LEVEL == 20

\* an empty dict
NoTable == [k \in {} |-> 0]

FlatPulse(level) == [num |-> [i \in 1..HOURS |-> level], den |-> 1, nan |-> {}]

\* np.nan_to_num(day, nan=0.0)
nan_to_num(day) ==
    [num |-> [i \in DOMAIN day.num |-> IF i \in day.nan THEN 0 ELSE day.num[i]],
     den |-> day.den, nan |-> {}]

RECURSIVE SumNum(_, _, _)
\* the sum of the numerators of day[lo:hi] (Python slice, 0-based, hi excluded)
SumNum(day, lo, hi) ==
    IF lo >= hi THEN 0 ELSE day.num[lo + 1] + SumNum(day, lo + 1, hi)

\* int(np.mean(day[lo:hi]))
MeanInt(day, lo, hi) == SumNum(day, lo, hi) \div ((hi - lo) * day.den)

\* the night bucket as the sum of its two window means, not their average
buckets_nightsum(day0) ==
    LET day == nan_to_num(day0)
    IN  [morning |-> MeanInt(day, 6, 10),
         lunch   |-> MeanInt(day, 11, 14),
         evening |-> MeanInt(day, 16, 20),
         night   |-> (2 * SumNum(day, 22, 24) + SumNum(day, 0, 4)) \div (4 * day.den)]

\* main.py 321-327
buckets(day0) ==
    LET day == nan_to_num(day0)
    IN  [morning |-> MeanInt(day, 6, 10),
         lunch   |-> MeanInt(day, 11, 14),
         evening |-> MeanInt(day, 16, 20),
         \* int((mean(day[22:24]) + mean(day[0:4])) / 2)
         night   |-> (2 * SumNum(day, 22, 24) + SumNum(day, 0, 4)) \div (8 * day.den)]

\* a short profile keeps its values and only the missing hours are 20.0
cluster_day_padded(profiles, cid) ==
    LET p == IF cid \in DOMAIN profiles THEN profiles[cid]
             ELSE [num |-> <<>>, den |-> 1, nan |-> {}]
    IN  [num |-> [i \in 1..HOURS |-> IF i <= Len(p.num) THEN p.num[i]
                                     ELSE FALLBACK_LEVEL * p.den],
         den |-> p.den, nan |-> p.nan \cap (1..HOURS)]

\* main.py 318-319: cluster_profile[:24] if len(cluster_profile) >= 24 else [20.0]*24
cluster_day(profiles, cid) ==
    LET p == IF cid \in DOMAIN profiles THEN profiles[cid]
             ELSE [num |-> <<>>, den |-> 1, nan |-> {}]
    IN  IF Len(p.num) >= HOURS
        THEN [num |-> SubSeq(p.num, 1, HOURS), den |-> p.den,
              nan |-> p.nan \cap (1..HOURS)]
        ELSE FlatPulse(FALLBACK_LEVEL)

\* main.py 314-319: the local day before it is sanitized
day_of(pulses, profiles, station_name, cluster_id) ==
    LET key == normalize_key(station_name)
    IN  IF key \in DOMAIN pulses THEN pulses[key]
        ELSE cluster_day(profiles, cluster_id)

\* main.py 313-327
time_dna_of(pulses, profiles, station_name, cluster_id) ==
    buckets(day_of(pulses, profiles, station_name, cluster_id))

(***************************************************************************)
(* preload_data: the pulse cache built at startup from the rows            *)
(* (STATION, hr, vol) of the hourly averages.  A vol is a number, NaN or   *)
(* None; the numbers are integers, min-max scaling being the same for any  *)
(* unit.                                                                   *)
(***************************************************************************)
VolNone == [vol |-> "none"]
VolNaN == [vol |-> "nan"]
Vol(n) == [vol |-> "num", v |-> n]

SeqMax(q) == CHOOSE m \in Range(q) : \A x \in Range(q) : x <= m
SeqMin(q) == CHOOSE m \in Range(q) : \A x \in Range(q) : m <= x

RECURSIVE temp_cache_of(_, _)
\* main.py 131-137: the loop over raw_data, from the cache built so far
temp_cache_of(raw_data, temp_cache) ==
    IF raw_data = <<>> THEN temp_cache
    ELSE LET row == Head(raw_data)
             key == normalize_key(row.STATION)
             h == row.hr
             v == IF row.vol \in {VolNone, VolNaN} THEN 0 ELSE row.vol.v
             started == IF key \in DOMAIN temp_cache THEN temp_cache
                        ELSE temp_cache @@ (key :> [i \in 1..HOURS |-> 0])
             filled == IF 0 <= h /\ h < HOURS
                       THEN [started EXCEPT ![key][h + 1] = v]
                       ELSE started
         IN  temp_cache_of(Tail(raw_data), filled)

\* a constant day is 5.0 whatever its level
scale_pulse_dim(values) ==
    LET lo == SeqMin(values)
        range_val == SeqMax(values) - lo
    IN  IF range_val > 0
        THEN [num |-> [i \in 1..HOURS |-> (values[i] - lo) * 100],
              den |-> range_val, nan |-> {}]
        ELSE FlatPulse(5)

\* main.py 140-147
scale_pulse(values) ==
    LET lo == SeqMin(values)
        range_val == SeqMax(values) - lo
    IN  IF range_val > 0
        THEN [num |-> [i \in 1..HOURS |-> (values[i] - lo) * 100],
              den |-> range_val, nan |-> {}]
        ELSE IF SeqMax(values) > 0 THEN FlatPulse(50)
        ELSE FlatPulse(5)

\* main.py 129-148: STATION_PULSE_CACHE after the two loops
pulse_cache_of(raw_data) ==
    LET temp_cache == temp_cache_of(raw_data, NoTable)
    IN  [s \in DOMAIN temp_cache |-> scale_pulse(temp_cache[s])]

(***************************************************************************)
(* RuleBasedNarrative.generate                                             *)
(***************************************************************************)
\* the cascade of main.py 257-263 with the Corporate test ahead of the
\* Academic and Nightlife tests
character_type_reordered(vitality, office, uni, time_dna) ==
    IF FracGT(office, 70) THEN "Corporate"
    ELSE IF uni > 2 THEN "Academic"
    ELSE IF FracGT(vitality, 75) /\ time_dna.night > 40 THEN "Nightlife"
    ELSE IF FracGT(office, 50) /\ FracGT(vitality, 50) THEN "Mixed-Use"
    ELSE IF time_dna.morning > 60 THEN "Commuter"
    ELSE IF FracLT(vitality, 20) /\ FracLT(office, 20) THEN "Residential"
    ELSE "Standard"

\* main.py 257-263
character_type(vitality, office, uni, time_dna) ==
    IF uni > 2 THEN "Academic"
    ELSE IF FracGT(vitality, 75) /\ time_dna.night > 40 THEN "Nightlife"
    ELSE IF FracGT(office, 70) THEN "Corporate"
    ELSE IF FracGT(office, 50) /\ FracGT(vitality, 50) THEN "Mixed-Use"
    ELSE IF time_dna.morning > 60 THEN "Commuter"
    ELSE IF FracLT(vitality, 20) /\ FracLT(office, 20) THEN "Residential"
    ELSE "Standard"

\* main.py 266-275
persona_of(ct, borough) ==
    CASE ct = "Academic"    -> borough \o " Student Hub"
      [] ct = "Nightlife"   -> borough \o " Nightlife District"
      [] ct = "Corporate"   -> borough \o " Business Center"
      [] ct = "Mixed-Use"   -> "Dynamic " \o borough \o " Hub"
      [] ct = "Commuter"    -> "Major Transit Anchor"
      [] ct = "Residential" -> "Local Neighborhood Stop"
      [] ct = "Standard"    -> borough \o " Local Stop"
      [] OTHER              -> "Local Station"

\* main.py 278-290
vibe_desc(ct, borough, vitality) ==
    CASE ct = "Academic" ->
           "Defined by student foot traffic and nearby educational institutions."
      [] ct = "Nightlife" ->
           "A high-energy area (Vitality: " \o ToString(FracInt(vitality))
               \o "%) bustling with evening social activity."
      [] ct = "Corporate" ->
           "A dense commercial district dominated by office buildings and professional services."
      [] ct = "Mixed-Use" ->
           "A balanced 'Live-Work-Play' neighborhood combining commercial density with social amenities."
      [] ct = "Residential" ->
           "A quieter, community-focused area serving local residents."
      [] OTHER ->
           "A key " \o borough \o " transit point serving the surrounding community."

\* max(time_dna, key=time_dna.get): the first key, in the dict's insertion
\* order morning, lunch, evening, night, that holds the maximum
BucketOrder == <<"morning", "lunch", "evening", "night">>
\* the last key that holds the maximum instead of the first
peak_time_last(time_dna) ==
    LET best == CHOOSE i \in 1..4 :
                  /\ \A j \in 1..4 : time_dna[BucketOrder[j]] <= time_dna[BucketOrder[i]]
                  /\ \A j \in (i + 1)..4 : time_dna[BucketOrder[j]] < time_dna[BucketOrder[i]]
    IN  BucketOrder[best]

peak_time(time_dna) ==
    LET best == CHOOSE i \in 1..4 :
                  /\ \A j \in 1..4 : time_dna[BucketOrder[j]] <= time_dna[BucketOrder[i]]
                  /\ \A j \in 1..(i - 1) : time_dna[BucketOrder[j]] < time_dna[BucketOrder[i]]
    IN  BucketOrder[best]

\* main.py 294-306
time_desc(peak) ==
    CASE peak = "morning" ->
           "Passenger volume peaks in the Morning (6-10am), indicating a heavy outbound commuter flow."
      [] peak = "lunch" ->
           "Activity is highest midday (11am-2pm), driven by local lunch crowds."
      [] peak = "evening" ->
           "Passenger volume swells in the Evening (4-8pm) as the workday ends and retail activity picks up."
      [] peak = "night" ->
           "Unusually high Late Night (10pm-4am) ridership signals a destination for after-hours entertainment."
      [] OTHER -> "Ridership remains consistent throughout the day."

\* main.py 251-311
generate(borough, vitality, office, uni, time_dna) ==
    LET ct == character_type(vitality, office, uni, time_dna)
    IN  [persona |-> persona_of(ct, borough),
         description |-> vibe_desc(ct, borough, vitality) \o " "
                             \o time_desc(peak_time(time_dna))]

(***************************************************************************)
(* Python values of the narrative records.  A dict is a record with the    *)
(* dict's keys; a value that is not a dict, and a missing entry, are       *)
(* records with the single field type.  A description is a tagged value:   *)
(* the code stores whatever JSON value the collaborator sent.              *)
(***************************************************************************)
PyStr(s) == [t |-> "str", s |-> s]
PyNone == [t |-> "null"]
Absent == [type |-> "absent"]
Junk == [type |-> "str"]
isinstance_dict(x) == "type" \notin DOMAIN x

\* main.py 398
NotFoundRecord ==
    [persona |-> "Unknown Station", description |-> PyStr("Data unavailable.")]

(***************************************************************************)
(* The tables built at startup and read-only afterwards, and the station   *)
(* feature table clusters.parquet that every miss queries again.           *)
(***************************************************************************)
WallSt == <<"W", "a", "l", "l", " ", "S", "t">>
EighthAv == <<"8", " ", "A", "v">>
Nowhere == <<"N", "o">>
Stations == {WallSt, EighthAv, Nowhere}

DISTRIBUTIONS ==
    [bars    |-> <<0, 0, 1, 2, 3, 5, 8, 9, 12, 40>>,
     offices |-> <<0, 1, 1, 2, 4, 6, 9, 15, 30, 80>>,
     unis    |-> <<0, 0, 0, 0, 0, 1, 1, 2, 3, 4>>]

\* a night-heavy pulse for "wallst": hours 0-3 and 22-23 high
NightPulse ==
    [num |-> <<90, 80, 70, 60, 10, 0, 20, 30, 30, 20, 20, 20,
               20, 20, 20, 20, 40, 50, 50, 40, 40, 50, 100, 90>>,
     den |-> 1, nan |-> {}]
STATION_PULSE_CACHE == [k \in {normalize_key(WallSt)} |-> NightPulse]

\* a commuter archetype for cluster 1 (168 hourly values, the first day shown)
CommuterDay ==
    <<5, 5, 5, 5, 10, 30, 80, 100, 90, 70, 40, 30,
      30, 30, 30, 40, 50, 60, 60, 50, 30, 20, 10, 5>>
CLUSTER_PROFILES ==
    [c \in {"1"} |->
        [num |-> CommuterDay \o CommuterDay, den |-> 1, nan |-> {}]]

Row(la, lo, nb, no, nu, c) ==
    [lat |-> la, lon |-> lo, n_bars |-> nb, n_offices |-> no,
     n_universities |-> nu, cluster_id |-> c]

\* the rows the feature table may hold for a station (none for Nowhere)
RowsOf(s) ==
    IF s = WallSt
    THEN {Row(Some(40739), Some(-74002), Some(12), Some(1), Some(0), 0),
          Row(None, None, None, Some(30), Some(3), 1)}
    ELSE IF s = EighthAv
    THEN {Row(Some(40655), Some(-74003), Some(0), Some(0), None, 1)}
    ELSE {}

calculate_percentile(dist_key, value) == percentile_of(DISTRIBUTIONS[dist_key], value)
get_clean_time_dna(station_name, cluster_id) ==
    time_dna_of(STATION_PULSE_CACHE, CLUSTER_PROFILES, station_name, ToString(cluster_id))

\* main.py 400-417: the deterministic baseline of a feature row
base_analysis(st, data) ==
    generate(get_borough(data.lat, data.lon),
             calculate_percentile("bars", data.n_bars),
             calculate_percentile("offices", data.n_offices),
             IF data.n_universities = None THEN 0 ELSE Val(data.n_universities),
             get_clean_time_dna(st, data.cluster_id))

\* main.py 419-424
initial_result(st, data) ==
    LET b == base_analysis(st, data)
    IN  [persona |-> b.persona, description |-> PyStr(b.description),
         vitality_score |-> calculate_percentile("bars", data.n_bars),
         office_score |-> calculate_percentile("offices", data.n_offices),
         is_ai_generated |-> FALSE]

(***************************************************************************)
(* The polish collaborator.  A reply either raises or carries resp.text:   *)
(* None, or a text made of chunks, each a code fence or a JSON document.   *)
(***************************************************************************)
\* the chunks "```json" (7 characters) and "```" (3 characters)
FENCE_JSON == [t |-> "fence", lang |-> "json"]
FENCE == [t |-> "fence", lang |-> ""]
JObj(has_p, pers, has_d, desc) ==
    [t |-> "obj", has_persona |-> has_p, persona |-> pers,
     has_description |-> has_d, description |-> desc]
JInvalid == [t |-> "invalid"]
JList == [t |-> "list"]
JString == [t |-> "str", s |-> "a description"]

AiText == PyStr("A polished description.")
GoodDoc == JObj(TRUE, "Another Persona", TRUE, AiText)
NoDescDoc == JObj(TRUE, "Another Persona", FALSE, PyNone)
NullDescDoc == JObj(TRUE, "Another Persona", TRUE, PyNone)

Raises == [kind |-> "raise", text |-> None]
Text(chunks) == [kind |-> "text", text |-> Some(chunks)]
NoText == [kind |-> "text", text |-> None]

WellFormedReplies ==
    {Text(<<GoodDoc>>), Text(<<FENCE_JSON, GoodDoc, FENCE>>),
     Text(<<FENCE, GoodDoc, FENCE>>)}
MalformedReplies ==
    {NoText, Text(<<JInvalid>>), Text(<<NoDescDoc>>), Text(<<NullDescDoc>>),
     Text(<<JList>>), Text(<<JString>>), Text(<<FENCE_JSON, GoodDoc>>),
     Text(<<FENCE_JSON>>)}
Replies == {Raises} \cup WellFormedReplies \cup MalformedReplies

IsFence(c) == c.t = "fence"

\* text[k:-3] after a leading fence: the fence goes, and so do the last three
\* characters, which are a closing fence or the end of the document
cut_fence(chunks) ==
    LET rest == Tail(chunks)
    IN  IF rest = <<>> THEN <<>>
        ELSE IF rest[Len(rest)] = FENCE THEN SubSeq(rest, 1, Len(rest) - 1)
        ELSE SubSeq(rest, 1, Len(rest) - 1) \o <<JInvalid>>

\* main.py 448-449
unfence(chunks) ==
    IF chunks # <<>> /\ Head(chunks) = FENCE_JSON THEN cut_fence(chunks)
    ELSE IF chunks # <<>> /\ Head(chunks) = FENCE THEN cut_fence(chunks)
    ELSE chunks

\* json.loads: one well-formed document, or an exception (JInvalid)
json_loads(chunks) ==
    IF Len(chunks) = 1 /\ ~IsFence(chunks[1]) THEN chunks[1] ELSE JInvalid

\* "description" in parsed, then parsed["description"]: both succeed only on
\* a dict holding the key
has_description(parsed) == parsed.t = "obj" /\ parsed.has_description

\* the polish keeps the collaborator's persona too
polish_result_persona(result, reply) ==
    IF reply.kind = "raise" \/ reply.text = None THEN result
    ELSE LET parsed == json_loads(unfence(Val(reply.text)))
         IN  IF has_description(parsed)
             THEN [result EXCEPT !.description = parsed.description,
                                 !.persona = parsed.persona,
                                 !.is_ai_generated = TRUE]
             ELSE result

\* main.py 446-458: the effect of one reply on result
polish_result(result, reply) ==
    IF reply.kind = "raise" \/ reply.text = None THEN result
    ELSE LET parsed == json_loads(unfence(Val(reply.text)))
         IN  IF has_description(parsed)
             THEN [result EXCEPT !.description = parsed.description,
                                 !.is_ai_generated = TRUE]
             ELSE result

(***************************************************************************)
(* The state: the narrative endpoint, served by a pool of threads          *)
(***************************************************************************)
Threads == {1, 2}
MaxRequests == 2

VARIABLES
    NARRATIVES_CACHE,   \* the in-memory mapping station -> entry
    file,               \* narratives.json
    features,           \* clusters.parquet: station -> Some(row) or None
    client,             \* whether the genai client was built at startup
    pc, station, result, resp,      \* each thread's position and locals
    buf,                \* the thread's open handle on the file: what it has buffered
    base,               \* the thread's record as built before the polish
    replyClass,         \* how the thread's polish call ended
    path,               \* the way the thread's request went: hit, notfound or miss
    wrote,              \* the entry the thread put into NARRATIVES_CACHE
    saveIssued, saveFailed,         \* the thread called save_cache / it failed
    afterFailedWrite,   \* the request began after a failed write for its station
    genCount, polishCalls,          \* per station: generations, polish calls
    overlap,            \* per station: two requests for it were in flight at once
    firstResp,          \* per station: the first response returned for it
    consistent,         \* per station: every later response equalled the first
    writeFailedFor,     \* per station: a save_cache of a miss for it failed
    reqCount,
    g_lat, g_lon, g_borough,        \* the classifier's input and output
    call, ret           \* a function called on its own: its arguments, its result

vars == <<NARRATIVES_CACHE, file, features, client, pc, station, result, resp,
          buf, base, replyClass, path, wrote, saveIssued, saveFailed,
          afterFailedWrite, genCount, polishCalls, overlap, firstResp,
          consistent, writeFailedFor, reqCount, g_lat, g_lon, g_borough,
          call, ret>>

mainVars == <<NARRATIVES_CACHE, file, features, client, pc, station, result, resp,
              buf, base, replyClass, path, wrote, saveIssued, saveFailed,
              afterFailedWrite, genCount, polishCalls, overlap, firstResp,
              consistent, writeFailedFor, reqCount>>
geoVars == <<g_lat, g_lon, g_borough>>
pureVars == <<call, ret>>
idleVars == <<buf, geoVars, pureVars>>
histVars == <<genCount, polishCalls, overlap, firstResp, consistent, writeFailedFor>>

EmptyCache == [s \in Stations |-> Absent]
FileMissing == [state |-> "missing", data |-> EmptyCache]
\* the file just opened for writing: no bytes
FileTruncated == [state |-> "empty", data |-> EmptyCache]
\* bytes that are not a JSON document
FileBroken == [state |-> "broken", data |-> EmptyCache]
FileOk(data) == [state |-> "ok", data |-> data]

OldRecord ==
    [persona |-> "Manhattan Local Stop",
     description |-> PyStr("Written by an earlier run."),
     vitality_score |-> Frac(50, 1), office_score |-> Frac(10, 1),
     is_ai_generated |-> TRUE]

\* what narratives.json may hold when the process starts: nothing, or a
\* mapping with a record of an earlier run and an entry that is not a dict
InitialFiles ==
    {FileMissing,
     FileOk([EmptyCache EXCEPT ![WallSt] = OldRecord, ![EighthAv] = Junk])}

\* A handle opened by open(NARRATIVES_FILE, "w") writes from offset 0 and
\* holds what json.dump wrote until the with block closes it: the document
\* of a mapping, or the beginning of it when json.dump raised.
NoHandle == [open |-> FALSE]
Buffered(whole, data) == [open |-> TRUE, complete |-> whole, data |-> data]

\* the document of big begins like the document of small and is longer:
\* dicts keep insertion order, so new stations are written last
Extends(big, small) ==
    /\ \A s \in Stations : small[s] # Absent => big[s] = small[s]
    /\ \E s \in Stations : small[s] = Absent /\ big[s] # Absent

\* main.py 70: leaving the with block flushes the buffer over the bytes the
\* file holds by then, from offset 0.  Every content the bytes allow is an
\* outcome: a longer document over a shorter one replaces it, a shorter one
\* over a longer one leaves the tail of the longer one behind.
flush_over(f, b) ==
    IF b.complete
    THEN CASE f.state \in {"empty", "missing"} -> {FileOk(b.data)}
           [] f.state = "broken" -> {FileOk(b.data), FileBroken}
           [] f.state = "ok" ->
                IF f.data = b.data THEN {f}
                ELSE IF Extends(b.data, f.data) THEN {FileOk(b.data)}
                ELSE IF Extends(f.data, b.data) THEN {FileBroken}
                ELSE {FileOk(b.data), FileBroken}
    ELSE CASE f.state \in {"empty", "missing"} -> {FileBroken}
           [] f.state = "broken" -> {FileBroken}
           [] f.state = "ok" ->
                IF f.data = b.data \/ Extends(f.data, b.data) THEN {f}
                ELSE {f, FileBroken}

\* main.py 59-66
load_cache(f) == IF f.state = "ok" THEN f.data ELSE EmptyCache

\* the hit test consults the file instead of the in-memory mapping
cache_hit_persisted(cache, st) ==
    file.state = "ok" /\ isinstance_dict(file.data[st])

\* the hit test looks the station up under its normalized name, while
\* main.py 461 stores it under the name as requested
cache_hit_normalized(cache, st) ==
    /\ normalize_key(st) \in DOMAIN cache
    /\ cache[normalize_key(st)] # Absent
    /\ isinstance_dict(cache[normalize_key(st)])

\* main.py 391
cache_hit(cache, st) == cache[st] # Absent /\ isinstance_dict(cache[st])

\* the sentinel is stored under the station like a generated record
not_found_cache_stored(cache, st) == [cache EXCEPT ![st] = NotFoundRecord]

\* main.py 397-398: the sentinel is returned and nothing is stored
not_found_cache(cache, st) == cache

\* the assignment of main.py 461 left out
cache_put_skipped(cache, st, rec) == cache

\* main.py 461
cache_put(cache, st, rec) == [cache EXCEPT ![st] = rec]

\* db.query: the rows of the station, or [] when the query itself fails
\* (db.py 41-43)
QueryResults(st) == {features[st], None}

\* how a reply counts for the collaborator's interface
ClassOf(r) ==
    IF r = Raises THEN "raised"
    ELSE IF r \in MalformedReplies THEN "malformed"
    ELSE "wellformed"

InFlight(t) == pc[t] \notin {"idle", "done"}
Persisted(st) == file.state = "ok" /\ isinstance_dict(file.data[st])

\* the row clusters.parquet holds for a station when the process starts
FirstRow(st) ==
    CHOOSE r \in RowsOf(st) : \A q \in RowsOf(st) : q.cluster_id >= r.cluster_id

MainInit ==
    /\ file \in InitialFiles
    /\ NARRATIVES_CACHE = load_cache(file)
    /\ features = [s \in Stations |->
                     IF RowsOf(s) = {} THEN None ELSE Some(FirstRow(s))]
    /\ client \in BOOLEAN
    /\ pc = [t \in Threads |-> "idle"]
    /\ station = [t \in Threads |-> <<>>]
    /\ result = [t \in Threads |-> Absent]
    /\ resp = [t \in Threads |-> Absent]
    /\ buf = [t \in Threads |-> NoHandle]
    /\ base = [t \in Threads |-> Absent]
    /\ replyClass = [t \in Threads |-> "none"]
    /\ path = [t \in Threads |-> "none"]
    /\ wrote = [t \in Threads |-> Absent]
    /\ saveIssued = [t \in Threads |-> FALSE]
    /\ saveFailed = [t \in Threads |-> FALSE]
    /\ afterFailedWrite = [t \in Threads |-> FALSE]
    /\ genCount = [s \in Stations |-> 0]
    /\ polishCalls = [s \in Stations |-> 0]
    /\ overlap = [s \in Stations |-> FALSE]
    /\ firstResp = [s \in Stations |-> Absent]
    /\ consistent = [s \in Stations |-> TRUE]
    /\ writeFailedFor = [s \in Stations |-> FALSE]
    /\ reqCount = 0

GeoIdle == g_lat = None /\ g_lon = None /\ g_borough = ""
NoCall == [fn |-> "none"]
NotReturned == [returned |-> FALSE]
Returned(v) == [returned |-> TRUE, value |-> v]
PureIdle == call = NoCall /\ ret = NotReturned

Init == MainInit /\ GeoIdle /\ PureIdle

\* the response r of a request for st leaves the server
Respond(st, r) ==
    /\ firstResp' = [firstResp EXCEPT ![st] = IF @ = Absent THEN r ELSE @]
    /\ consistent' = [consistent EXCEPT ![st] = @ /\ (firstResp[st] \in {Absent, r})]

\* a request for station st arrives; the pool hands it to its first free thread
Request(t, st) ==
    /\ ~InFlight(t)
    /\ \A u \in Threads : u < t => InFlight(u)
    /\ reqCount < MaxRequests
    /\ reqCount' = reqCount + 1
    /\ pc' = [pc EXCEPT ![t] = "check"]
    /\ station' = [station EXCEPT ![t] = st]
    /\ result' = [result EXCEPT ![t] = Absent]
    /\ resp' = [resp EXCEPT ![t] = Absent]
    /\ base' = [base EXCEPT ![t] = Absent]
    /\ replyClass' = [replyClass EXCEPT ![t] = "none"]
    /\ path' = [path EXCEPT ![t] = "none"]
    /\ wrote' = [wrote EXCEPT ![t] = Absent]
    /\ saveIssued' = [saveIssued EXCEPT ![t] = FALSE]
    /\ saveFailed' = [saveFailed EXCEPT ![t] = FALSE]
    /\ afterFailedWrite' =
           [afterFailedWrite EXCEPT ![t] = writeFailedFor[st] /\ ~Persisted(st)]
    /\ overlap' = [overlap EXCEPT ![st] =
                      @ \/ \E u \in Threads \ {t} : InFlight(u) /\ station[u] = st]
    /\ UNCHANGED <<NARRATIVES_CACHE, file, features, client, genCount,
                   polishCalls, firstResp, consistent, writeFailedFor, idleVars>>

\* main.py 391: the cache test
Check(t) ==
    /\ pc[t] = "check"
    /\ pc' = [pc EXCEPT ![t] =
                 IF cache_hit(NARRATIVES_CACHE, station[t]) THEN "hit" ELSE "query"]
    /\ UNCHANGED <<NARRATIVES_CACHE, file, features, client, station, result, resp,
                   base, replyClass, path, wrote, saveIssued, saveFailed,
                   afterFailedWrite, histVars, reqCount, idleVars>>

\* main.py 392: return NARRATIVES_CACHE[station]
ReturnHit(t) ==
    /\ pc[t] = "hit"
    /\ pc' = [pc EXCEPT ![t] = "done"]
    /\ resp' = [resp EXCEPT ![t] = NARRATIVES_CACHE[station[t]]]
    /\ path' = [path EXCEPT ![t] = "hit"]
    /\ Respond(station[t], resp'[t])
    /\ UNCHANGED <<NARRATIVES_CACHE, file, features, client, station, result,
                   base, replyClass, wrote, saveIssued, saveFailed,
                   afterFailedWrite, genCount, polishCalls, overlap,
                   writeFailedFor, reqCount, idleVars>>

\* main.py 394-398: no rows
NotFound(t) ==
    /\ pc[t] = "query"
    /\ None \in QueryResults(station[t])
    /\ pc' = [pc EXCEPT ![t] = "done"]
    /\ resp' = [resp EXCEPT ![t] = NotFoundRecord]
    /\ path' = [path EXCEPT ![t] = "notfound"]
    /\ NARRATIVES_CACHE' = not_found_cache(NARRATIVES_CACHE, station[t])
    /\ Respond(station[t], resp'[t])
    /\ UNCHANGED <<file, features, client, station, result,
                   base, replyClass, wrote, saveIssued, saveFailed,
                   afterFailedWrite, genCount, polishCalls, overlap,
                   writeFailedFor, reqCount, idleVars>>

\* main.py 394-427: the row is found and the deterministic record is built
Generate(t) ==
    /\ pc[t] = "query"
    /\ \E rows \in QueryResults(station[t]) \ {None} :
          /\ result' = [result EXCEPT ![t] = initial_result(station[t], Val(rows))]
          /\ base' = [base EXCEPT ![t] = result'[t]]
    /\ path' = [path EXCEPT ![t] = "miss"]
    /\ genCount' = [genCount EXCEPT ![station[t]] = @ + 1]
    /\ pc' = [pc EXCEPT ![t] = IF client THEN "polish" ELSE "store"]
    /\ UNCHANGED <<NARRATIVES_CACHE, file, features, client, station, resp,
                   replyClass, wrote, saveIssued, saveFailed, afterFailedWrite,
                   polishCalls, overlap, firstResp, consistent, writeFailedFor,
                   reqCount, idleVars>>

\* main.py 446: client.models.generate_content is called
PolishCall(t) ==
    /\ pc[t] = "polish"
    /\ pc' = [pc EXCEPT ![t] = "await"]
    /\ polishCalls' = [polishCalls EXCEPT ![station[t]] = @ + 1]
    /\ UNCHANGED <<NARRATIVES_CACHE, file, features, client, station, result, resp,
                   base, replyClass, path, wrote, saveIssued, saveFailed,
                   afterFailedWrite, genCount, overlap, firstResp, consistent,
                   writeFailedFor, reqCount, idleVars>>

\* main.py 446-458: the call comes back (with a text or an exception) and the
\* reply is applied.  The call has no timeout: until the collaborator answers
\* the thread stays in "await".
PolishReply(t, r) ==
    /\ pc[t] = "await"
    /\ replyClass' = [replyClass EXCEPT ![t] = ClassOf(r)]
    /\ result' = [result EXCEPT ![t] = polish_result(result[t], r)]
    /\ pc' = [pc EXCEPT ![t] = "store"]
    /\ UNCHANGED <<NARRATIVES_CACHE, file, features, client, station, resp, base,
                   path, wrote, saveIssued, saveFailed, afterFailedWrite,
                   histVars, reqCount, idleVars>>

\* main.py 461
Store(t) ==
    /\ pc[t] = "store"
    /\ NARRATIVES_CACHE' = cache_put(NARRATIVES_CACHE, station[t], result[t])
    /\ wrote' = [wrote EXCEPT ![t] = NARRATIVES_CACHE'[station[t]]]
    /\ pc' = [pc EXCEPT ![t] = "save_open"]
    /\ UNCHANGED <<file, features, client, station, result, resp, base,
                   replyClass, path, saveIssued, saveFailed,
                   afterFailedWrite, histVars, reqCount, idleVars>>

\* main.py 69-70: open(NARRATIVES_FILE, "w") truncates the file and gives the
\* thread a handle of its own, or raises
SaveOpen(t, ok) ==
    /\ pc[t] = "save_open"
    /\ saveIssued' = [saveIssued EXCEPT ![t] = TRUE]
    /\ IF ok
       THEN /\ file' = FileTruncated
            /\ pc' = [pc EXCEPT ![t] = "save_dump"]
            /\ UNCHANGED <<saveFailed, writeFailedFor>>
       ELSE /\ file' = file
            /\ pc' = [pc EXCEPT ![t] = "return"]
            /\ saveFailed' = [saveFailed EXCEPT ![t] = TRUE]
            /\ writeFailedFor' = [writeFailedFor EXCEPT ![station[t]] = TRUE]
    /\ UNCHANGED <<NARRATIVES_CACHE, features, client, station, result, resp,
                   base, replyClass, path, wrote, afterFailedWrite,
                   genCount, polishCalls, overlap, firstResp, consistent,
                   reqCount, idleVars>>

\* main.py 70-73: json.dump serializes the mapping into the handle; or it
\* raises part-way (an I/O error, or the dict changing size under its
\* iteration), the with block closes the handle at once, which flushes what
\* was written, and save_cache swallows the exception
SaveDump(t, ok) ==
    /\ pc[t] = "save_dump"
    /\ IF ok
       THEN /\ pc' = [pc EXCEPT ![t] = "save_close"]
            /\ buf' = [buf EXCEPT ![t] = Buffered(TRUE, NARRATIVES_CACHE)]
            /\ UNCHANGED <<file, saveFailed, writeFailedFor>>
       ELSE /\ pc' = [pc EXCEPT ![t] = "return"]
            /\ file' \in flush_over(file, Buffered(FALSE, NARRATIVES_CACHE))
            /\ saveFailed' = [saveFailed EXCEPT ![t] = TRUE]
            /\ writeFailedFor' = [writeFailedFor EXCEPT ![station[t]] = TRUE]
            /\ UNCHANGED buf
    /\ UNCHANGED <<NARRATIVES_CACHE, features, client, station, result, resp,
                   base, replyClass, path, wrote, saveIssued,
                   afterFailedWrite, genCount, polishCalls, overlap, firstResp,
                   consistent, reqCount, geoVars, pureVars>>

\* main.py 70: the with block closes the handle after json.dump returned
SaveClose(t) ==
    /\ pc[t] = "save_close"
    /\ pc' = [pc EXCEPT ![t] = "return"]
    /\ file' \in flush_over(file, buf[t])
    /\ buf' = [buf EXCEPT ![t] = NoHandle]
    /\ UNCHANGED <<NARRATIVES_CACHE, features, client, station, result, resp,
                   base, replyClass, path, wrote, saveIssued, saveFailed,
                   afterFailedWrite, histVars, reqCount, geoVars, pureVars>>

\* main.py 463
Return(t) ==
    /\ pc[t] = "return"
    /\ pc' = [pc EXCEPT ![t] = "done"]
    /\ resp' = [resp EXCEPT ![t] = result[t]]
    /\ result' = [result EXCEPT ![t] = Absent]
    /\ Respond(station[t], resp'[t])
    /\ UNCHANGED <<NARRATIVES_CACHE, file, features, client, station,
                   base, replyClass, path, wrote, saveIssued, saveFailed,
                   afterFailedWrite, genCount, polishCalls, overlap,
                   writeFailedFor, reqCount, idleVars>>

\* the batch pipeline rewrites the row of a station in clusters.parquet
TableChange(st, row) ==
    /\ features[st] # Some(row)
    \* the row read at startup is replaced once
    /\ features[st] = Some(FirstRow(st))
    \* a rewrite that no lookup can follow is left out: nothing reads it
    /\ reqCount < MaxRequests \/ \E t \in Threads : pc[t] \in {"check", "query"}
    /\ features' = [features EXCEPT ![st] = Some(row)]
    /\ UNCHANGED <<NARRATIVES_CACHE, file, client, pc, station, result, resp,
                   base, replyClass, path, wrote, saveIssued, saveFailed,
                   afterFailedWrite, histVars, reqCount, idleVars>>

\* the steps a thread takes by itself
ThreadStep(t) ==
    \/ Check(t)
    \/ ReturnHit(t)
    \/ NotFound(t)
    \/ Generate(t)
    \/ PolishCall(t)
    \/ Store(t)
    \/ \E ok \in BOOLEAN : SaveOpen(t, ok)
    \/ \E ok \in BOOLEAN : SaveDump(t, ok)
    \/ SaveClose(t)
    \/ Return(t)

Next ==
    \/ \E t \in Threads, st \in Stations : Request(t, st)
    \/ \E t \in Threads : ThreadStep(t)
    \/ \E t \in Threads, r \in Replies : PolishReply(t, r)
    \/ \E st \in Stations : \E row \in RowsOf(st) : TableChange(st, row)

Spec == Init /\ [][Next]_vars

\* Every thread keeps running; nothing obliges the collaborator to answer or
\* a client to send a request.
FairSpec == Spec /\ \A t \in Threads : WF_vars(ThreadStep(t))

(***************************************************************************)
(* The classifier on its own: a point is drawn and classified              *)
(***************************************************************************)
GeoMargin == 1

LatThresholds ==
    {BRONX_LAT, ZONE_A_LAT, ZONE_B_LAT, MARBLE_HILL_LAT, ROCKAWAY_LAT,
     RIDGEWOOD_LAT, LIC_LAT, RIVER_BASE_LAT}
LonThresholds ==
    {SI_LON, QUEENS_LON, ZONE_A_LON, ZONE_B_LON, ROCKAWAY_LON, RIDGEWOOD_LON,
     OZONE_LON, RIVER_BASE_LON}
Near(ts) == {x + d : x \in ts, d \in (0 - GeoMargin)..GeoMargin}
\* the longitude just west of the East River border at a latitude
BorderLon(la) ==
    (RIVER_SLOPE_DEN * RIVER_BASE_LON + RIVER_SLOPE_NUM * (la - RIVER_BASE_LAT))
        \div RIVER_SLOPE_DEN
GeoLatValues == Near(LatThresholds)
GeoLonValues ==
    Near(LonThresholds \cup {BorderLon(la) : la \in {x \in GeoLatValues : x <= ZONE_B_LAT}})

GeoInit ==
    /\ MainInit
    /\ file = FileMissing
    /\ client = FALSE
    /\ g_lat \in {None} \cup {Some(la) : la \in GeoLatValues}
    /\ g_lon \in {None} \cup {Some(lo) : lo \in GeoLonValues}
    /\ g_borough = ""
    /\ PureIdle

Classify ==
    /\ g_borough = ""
    /\ g_borough' = get_borough(g_lat, g_lon)
    /\ UNCHANGED <<NARRATIVES_CACHE, file, features, client, pc, station, result,
                   resp, base, replyClass, path, wrote, saveIssued, saveFailed,
                   afterFailedWrite, histVars, reqCount, buf, g_lat, g_lon, pureVars>>

GeoSpec == GeoInit /\ [][Classify]_vars

(***************************************************************************)
(* calculate_percentile on its own: a distribution and two values are      *)
(* drawn and the function is applied to each value                         *)
(***************************************************************************)
PctMaxLen == 3
PctMaxValue == 3

SeqsUpTo(S, n) == UNION {[1..k -> S] : k \in 0..n}
\* counts of bars, offices or universities; a value may lie above all of them
PctValues == {None} \cup {Some(v) : v \in 0..(PctMaxValue + 1)}
PctCalls ==
    [fn : {"calculate_percentile"}, data : SeqsUpTo(0..PctMaxValue, PctMaxLen),
     value : PctValues, other : PctValues]

\* every variable of the endpoint and of the classifier at rest
Quiet == MainInit /\ file = FileMissing /\ client = FALSE /\ GeoIdle

PctInit == Quiet /\ call \in PctCalls /\ ret = NotReturned

CallPercentile ==
    /\ call.fn = "calculate_percentile"
    /\ ret = NotReturned
    /\ ret' = Returned([p |-> percentile_of(call.data, call.value),
                        q |-> percentile_of(call.data, call.other)])
    /\ UNCHANGED <<mainVars, geoVars, call>>

PctSpec == PctInit /\ [][CallPercentile]_vars

(***************************************************************************)
(* get_clean_time_dna on its own: a pulse cache, an archetype table, a     *)
(* station name and a cluster id are drawn and the function is applied     *)
(***************************************************************************)
DnaDen == 3

\* pulse values are multiples of 1/DnaDen in [0, 100]
DnaLevels == {0, 1, FALLBACK_LEVEL * DnaDen, 100 * DnaDen - 1, 100 * DnaDen}
\* a pulse at one level with one hour at another level, or holding NaN
PulseShape(level, h, x, isnan) ==
    [num |-> [i \in 1..HOURS |-> IF i = h THEN x ELSE level],
     den |-> DnaDen, nan |-> IF isnan THEN {h} ELSE {}]
\* an archetype profile of n values that differs from the pulse everywhere
ProfileOf(pulse, n) ==
    [num |-> [i \in 1..n |-> 100 * DnaDen - pulse.num[((i - 1) % HOURS) + 1]],
     den |-> DnaDen, nan |-> {}]
ProfileLengths == {0, HOURS - 1, HOURS, 2 * HOURS}

WallStShout == <<"W", "A", "L", "L", "-", "S", "T">>

\* the call for a pulse cache that holds the pulse under "wallst" or is
\* empty, and an archetype table with a profile of n values for cluster "1"
DnaCall(pulse, cached, n, name, cid) ==
    [fn |-> "get_clean_time_dna",
     pulses |-> IF cached THEN [k \in {normalize_key(WallSt)} |-> pulse]
                ELSE NoTable,
     profiles |-> [c \in {"1"} |-> ProfileOf(pulse, n)],
     station_name |-> name, cluster_id |-> cid]

DnaInit ==
    /\ Quiet
    /\ \E l \in DnaLevels, h \in 1..HOURS, x \in DnaLevels, b \in BOOLEAN,
          cached \in BOOLEAN, n \in ProfileLengths,
          name \in {WallSt, WallStShout, EighthAv}, cid \in {"1", "0"} :
            call = DnaCall(PulseShape(l, h, x, b), cached, n, name, cid)
    /\ ret = NotReturned

CallTimeDna ==
    /\ call.fn = "get_clean_time_dna"
    /\ ret = NotReturned
    /\ ret' = Returned(
           [day |-> day_of(call.pulses, call.profiles, call.station_name,
                           call.cluster_id),
            dna |-> time_dna_of(call.pulses, call.profiles, call.station_name,
                                call.cluster_id)])
    /\ UNCHANGED <<mainVars, geoVars, call>>

DnaSpec == DnaInit /\ [][CallTimeDna]_vars

(***************************************************************************)
(* RuleBasedNarrative.generate on its own: a borough, two percentiles, a   *)
(* university count and a TimeDNA are drawn and the function is applied    *)
(***************************************************************************)
GenMargin == 1

NearGen(ts) == {x + d : x \in ts, d \in (0 - GenMargin)..GenMargin}
\* percentiles around the thresholds of the cascade, a high one, and 75.5
VitalityValues == {Frac(n, 1) : n \in NearGen({20, 50, 75}) \cup {90}} \cup {Frac(151, 2)}
OfficeValues == {Frac(n, 1) : n \in NearGen({20, 50, 70}) \cup {90}}
UniValues == {0, 2, 3}
\* TimeDNA values around the two thresholds, with every kind of tie for the peak
TimeDnaValues ==
    [morning : {30, 60, 61}, lunch : {20, 61}, evening : {45, 61},
     night : {40, 41, 55, 61}]

GenCalls ==
    [fn : {"generate"}, borough : {"Manhattan", "NYC"}, vitality : VitalityValues,
     office : OfficeValues, uni : UniValues, time_dna : TimeDnaValues]

GenInit == Quiet /\ call \in GenCalls /\ ret = NotReturned

CallGenerate ==
    /\ call.fn = "generate"
    /\ ret = NotReturned
    /\ ret' = Returned(generate(call.borough, call.vitality, call.office,
                                call.uni, call.time_dna))
    /\ UNCHANGED <<mainVars, geoVars, call>>

GenSpec == GenInit /\ [][CallGenerate]_vars

(***************************************************************************)
(* The pulse construction of preload_data on its own: the rows of the      *)
(* hourly averages are drawn and the cache is built                        *)
(***************************************************************************)
\* average entries of an hour: ridership counts, never negative
Volumes == {0, 10, 60, 110}
\* what the table holds for one hour: a volume, NaN, None, or no row
HourEntries == {Vol(n) : n \in Volumes} \cup {VolNaN, VolNone, [vol |-> "norow"]}
FirstHours == {0, 7, 22}
SecondHours == {0, 12, 23}
StrayHours == {-1, HOURS}

RECURSIVE RowsFrom(_, _)
\* the rows of a station in hour order, given its entry per hour
RowsFrom(entries, h) ==
    IF h >= HOURS THEN <<>>
    ELSE (IF entries[h].vol = "norow" THEN <<>>
          ELSE <<[STATION |-> WallSt, hr |-> h, vol |-> entries[h]]>>)
         \o RowsFrom(entries, h + 1)

\* Wall St at one level with two hours of their own, a row with an hour
\* outside 0..23 or none, and one row for 8 Av
RawData(level, h1, e1, h2, e2, stray) ==
    RowsFrom([h \in 0..(HOURS - 1) |->
                 IF h = h2 THEN e2 ELSE IF h = h1 THEN e1 ELSE Vol(level)], 0)
      \o (IF stray = None THEN <<>>
          ELSE <<[STATION |-> WallSt, hr |-> Val(stray), vol |-> Vol(110)]>>)
      \o <<[STATION |-> EighthAv, hr |-> 3, vol |-> Vol(60)]>>

PulseInit ==
    /\ Quiet
    /\ \E level \in Volumes, h1 \in FirstHours, e1 \in HourEntries,
          h2 \in SecondHours, e2 \in HourEntries,
          stray \in {None} \cup {Some(h) : h \in StrayHours} :
            call = [fn |-> "preload_data",
                    raw_data |-> RawData(level, h1, e1, h2, e2, stray)]
    /\ ret = NotReturned

CallPreload ==
    /\ call.fn = "preload_data"
    /\ ret = NotReturned
    /\ ret' = Returned([temp_cache |-> temp_cache_of(call.raw_data, NoTable),
                        STATION_PULSE_CACHE |-> pulse_cache_of(call.raw_data)])
    /\ UNCHANGED <<mainVars, geoVars, call>>

PulseSpec == PulseInit /\ [][CallPreload]_vars

(***************************************************************************)
(* Properties                                                              *)
(***************************************************************************)
Done(t) == pc[t] = "done"
Missed(t) == Done(t) /\ path[t] = "miss"
FullRecord(r) == isinstance_dict(r) /\ "is_ai_generated" \in DOMAIN r

\* C1: under any interleaving of concurrent first requests for one station,
\* at most one generation is performed for it and the polish collaborator is
\* called at most once for it.
C1_AtMostOneGeneration ==
    \A s \in Stations : genCount[s] <= 1 /\ polishCalls[s] <= 1

\* C2: when the requests for a station come one after the other and the
\* first is answered with a record, every later response is that same
\* record, nothing is generated on a hit, and the polish collaborator is
\* called at most once, whatever happens to the feature table meanwhile.
C2_SequentialIdempotent ==
    \A s \in Stations :
        (~overlap[s] /\ FullRecord(firstResp[s]))
            => /\ consistent[s]
               /\ genCount[s] <= 1
               /\ polishCalls[s] <= 1
               /\ \A t \in Threads :
                     (Done(t) /\ station[t] = s) => resp[t] = firstResp[s]

\* a second request in sequence was a hit on a polished record although the
\* station's row had changed since the generation
C2_Witness ==
    /\ reqCount = 2
    /\ ~overlap[WallSt]
    /\ genCount[WallSt] = 1
    /\ polishCalls[WallSt] = 1
    /\ Done(1) /\ station[1] = WallSt /\ path[1] = "hit"
    /\ resp[1] = firstResp[WallSt]
    /\ resp[1].is_ai_generated
    /\ resp[1].persona = "Manhattan Nightlife District"
    /\ features[WallSt] # Some(FirstRow(WallSt))

\* C3 as claimed: a request that begins after the write of a miss for its
\* station failed, the file still lacking the station, generates again.
C3_RetryAfterFailedWrite ==
    \A t \in Threads : (Done(t) /\ afterFailedWrite[t]) => path[t] = "miss"

\* C3 as the code has it: a miss whose write fails still returns the record
\* it computed, and that record stays in NARRATIVES_CACHE, so a request that
\* begins afterwards is a hit on it and generates nothing, although the file
\* does not hold it.
C3_HitAfterFailedWrite ==
    \A t \in Threads :
        /\ (Missed(t) /\ saveFailed[t])
              => /\ FullRecord(resp[t])
                 /\ resp[t] = wrote[t]
                 /\ resp[t].persona = base[t].persona
        /\ (Done(t) /\ afterFailedWrite[t])
              => /\ path[t] = "hit"
                 /\ FullRecord(resp[t])

C3_Witness ==
    \E t \in Threads :
        /\ Done(t) /\ afterFailedWrite[t] /\ path[t] = "hit"
        /\ ~Persisted(station[t])
        /\ genCount[station[t]] = 1

\* C4: a request whose station has no feature row and no cached record gets
\* {persona: "Unknown Station", description: "Data unavailable."}; the step
\* that answers it changes neither NARRATIVES_CACHE nor the file; and a
\* station without a row is never cached, so the next request for it is a
\* miss again.
C4_NotFoundNotCached ==
    /\ [](\A t \in Threads :
            (Done(t) /\ path[t] = "notfound")
                => resp[t] = [persona |-> "Unknown Station",
                              description |-> PyStr("Data unavailable.")])
    /\ [](\A s \in Stations :
            RowsOf(s) = {} => (NARRATIVES_CACHE[s] = Absent /\ ~Persisted(s)))
    /\ [][\A t \in Threads :
            (pc[t] = "query" /\ pc'[t] = "done")
                => (NARRATIVES_CACHE' = NARRATIVES_CACHE /\ file' = file)]_vars

\* two requests for the station without a row were both answered not found
C4_Witness ==
    /\ reqCount = 2
    /\ \A t \in Threads :
          Done(t) /\ station[t] = Nowhere /\ path[t] = "notfound"
    /\ NARRATIVES_CACHE[Nowhere] = Absent

\* C5: every request eventually returns, even when the polish collaborator
\* never answers.
C5_EventuallyReturns ==
    \A t \in Threads : InFlight(t) ~> Done(t)

\* C6: when the collaborator is absent, raises or sends a malformed reply
\* during a miss, the returned and stored record has the generator's
\* description and is_ai_generated = FALSE.
C6_FailSafeBaseline ==
    \A t \in Threads :
        (Missed(t) /\ replyClass[t] \in {"none", "raised", "malformed"})
            => /\ resp[t].description = base[t].description
               /\ resp[t].is_ai_generated = FALSE
               /\ wrote[t] = resp[t]

\* the descriptions a reply of the collaborator can carry
ReplyDescriptions == {AiText, PyNone}

\* C7: the polish changes the description only: persona, vitality_score and
\* office_score of the returned record are those of the baseline whatever
\* the collaborator sent, and is_ai_generated is TRUE exactly when the
\* description is the collaborator's instead of the baseline's.
C7_PolishTouchesDescriptionOnly ==
    \A t \in Threads :
        Missed(t)
            => /\ resp[t].persona = base[t].persona
               /\ resp[t].vitality_score = base[t].vitality_score
               /\ resp[t].office_score = base[t].office_score
               /\ resp[t].is_ai_generated
                     <=> (resp[t].description # base[t].description)
               /\ resp[t].is_ai_generated
                     => (resp[t].description \in ReplyDescriptions)
               /\ ~resp[t].is_ai_generated
                     => (resp[t].description = base[t].description)

C7_Witness ==
    \E t \in Threads :
        /\ Missed(t) /\ replyClass[t] = "wellformed"
        /\ resp[t].is_ai_generated
        /\ resp[t].description = AiText
        /\ resp[t].persona = "Manhattan Nightlife District"

\* C8: a request that generated a record has put that final record into
\* NARRATIVES_CACHE and has called save_cache before it returns.
C8_StoredBeforeReturn ==
    \A t \in Threads :
        Missed(t) => (wrote[t] = resp[t] /\ FullRecord(wrote[t]) /\ saveIssued[t])

C8_Witness ==
    \E t \in Threads :
        /\ Missed(t) /\ saveIssued[t] /\ ~saveFailed[t]
        /\ resp[t].is_ai_generated
        /\ Persisted(station[t])
        /\ file.data[station[t]] = resp[t]

Classified == g_borough # ""

\* C9 as claimed: every input gets one of the six labels, and a missing
\* coordinate gets Unknown.
C9_MissingIsUnknown ==
    Classified
        => /\ g_borough \in {"Bronx", "Staten Island", "Queens", "Manhattan",
                             "Brooklyn", "Unknown"}
           /\ (g_lat = None \/ g_lon = None) => g_borough = "Unknown"

\* C9 as the code has it: every input, a missing coordinate included, gets
\* exactly one of the labels Bronx, Staten Island, Queens, Manhattan,
\* Brooklyn, NYC, and a missing coordinate gets NYC.
C9_MissingIsNYC ==
    Classified
        => /\ g_borough \in {"Bronx", "Staten Island", "Queens", "Manhattan",
                             "Brooklyn", "NYC"}
           /\ (g_lat = None \/ g_lon = None) <=> (g_borough = "NYC")

C9_Witness == Classified /\ g_lat = None /\ g_lon # None /\ g_borough = "NYC"

\* C10: for a present point, first match wins: lat > 40.835 Bronx; else
\* lon < -74.05 Staten Island; else lon > -73.85 Queens; else Manhattan iff
\* the point is west of the three-zone East River border, a Manhattan
\* selection north of 40.88 being Bronx.
C10_Cascade ==
    (Classified /\ g_lat # None /\ g_lon # None)
        => LET la == Val(g_lat)
               lo == Val(g_lon)
               west == \/ (la > 40760 /\ lo < -73935)
                       \/ (40740 < la /\ la <= 40760 /\ lo < -73960)
                       \/ (la <= 40740 /\ 5 * lo < 5 * (-74010) + 4 * (la - 40680))
           IN  IF la > 40835 THEN g_borough = "Bronx"
               ELSE IF lo < -74050 THEN g_borough = "Staten Island"
               ELSE IF lo > -73850 THEN g_borough = "Queens"
               ELSE IF west
               THEN g_borough = (IF la > 40880 THEN "Bronx" ELSE "Manhattan")
               ELSE g_borough \in {"Brooklyn", "Queens"}

\* a point of the lowest zone, west of the sloped border, is Manhattan
C10_Witness ==
    /\ Classified /\ g_lat # None /\ g_lon # None
    /\ Val(g_lat) <= 40740 /\ Val(g_lon) > -74010
    /\ g_borough = "Manhattan"

\* a classified point that none of the steps before the Brooklyn/Queens
\* split (Bronx, Staten Island, eastern Queens, Manhattan) has claimed
ReachedSplit ==
    /\ Classified
    /\ g_lat # None /\ g_lon # None
    /\ Val(g_lat) <= 40835
    /\ Val(g_lon) >= -74050 /\ Val(g_lon) <= -73850
    /\ ~is_manhattan(Val(g_lat), Val(g_lon))

\* C11 as stated: below latitude 40.60 a point is Queens iff its longitude is
\* above -73.90; from 40.60 to 40.70, both included, it is Queens iff its
\* longitude is above -73.86; above 40.70 it is Queens iff its longitude is
\* above -73.91 or its latitude above 40.735; otherwise it is Brooklyn.
C11_BandsInclusive ==
    ReachedSplit =>
        LET la == Val(g_lat)
            lo == Val(g_lon)
            queens == IF la < 40600 THEN lo > -73900
                      ELSE IF la <= 40700 THEN lo > -73860
                      ELSE lo > -73910 \/ la > 40735
        IN  g_borough = IF queens THEN "Queens" ELSE "Brooklyn"

\* C11 amended: the middle band is 40.60 <= lat < 40.70; a point at latitude
\* 40.70 exactly is Brooklyn whatever its longitude; the bands below 40.60 and
\* above 40.70 are as stated.
C11_BandsExclusive ==
    ReachedSplit =>
        LET la == Val(g_lat)
            lo == Val(g_lon)
            queens == IF la < 40600 THEN lo > -73900
                      ELSE IF la < 40700 THEN lo > -73860
                      ELSE IF la = 40700 THEN FALSE
                      ELSE lo > -73910 \/ la > 40735
        IN  g_borough = IF queens THEN "Queens" ELSE "Brooklyn"

\* a point at latitude 40.70 east of -73.86 has been classified, as Brooklyn
C11_Witness ==
    /\ ReachedSplit
    /\ Val(g_lat) = 40700 /\ Val(g_lon) > -73860
    /\ g_borough = "Brooklyn"

PctReturned == call.fn = "calculate_percentile" /\ ret # NotReturned
\* a null value counts as 0
AsNumber(v) == IF v = None THEN 0 ELSE Val(v)
Below(data, v) == {i \in DOMAIN data : data[i] < v}

\* C12: the percentile of a value against a non-empty distribution is 100
\* times the number of elements strictly below the value (null counted as 0)
\* over the number of elements, and 0 against an empty distribution; it never
\* decreases when the value grows, and it is 0 at the distribution's minimum.
C12_PercentileFormula ==
    PctReturned =>
        LET data == call.data
            v == AsNumber(call.value)
            w == AsNumber(call.other)
            p == ret.value.p
            q == ret.value.q
        IN  /\ data = <<>> => p.num = 0
            /\ data # <<>> =>
                 p.num * Len(data) = 100 * Cardinality(Below(data, v)) * p.den
            /\ v <= w => FracLE(p, q)
            /\ (data # <<>> /\ \A i \in DOMAIN data : v <= data[i]) => p.num = 0

\* a null value and a larger one have been ranked against a distribution
\* with elements below the larger one
C12_Witness ==
    /\ PctReturned
    /\ call.value = None /\ call.other # None
    /\ Len(call.data) = 3
    /\ ret.value.p = Frac(0, 1)
    /\ ret.value.q = Frac(200, 3)

\* C13 as stated: the percentile is never negative and never reaches 100.
C13_BelowHundred ==
    PctReturned => ret.value.p.num >= 0 /\ FracLT(ret.value.p, 100)

\* C13 amended: the percentile lies in [0, 100]; it is 100 exactly when the
\* distribution is non-empty and every element is below the value, and it is
\* below 100 whenever the value is an element of the distribution.
C13_AtMostHundred ==
    PctReturned =>
        LET data == call.data
            v == AsNumber(call.value)
            p == ret.value.p
        IN  /\ p.num >= 0 /\ ~FracGT(p, 100)
            /\ (p = Frac(100, 1)) <=>
                   (data # <<>> /\ \A i \in DOMAIN data : data[i] < v)
            /\ (\E i \in DOMAIN data : data[i] = v) => FracLT(p, 100)

\* a value above every element of a non-empty distribution has been ranked
C13_Witness ==
    /\ PctReturned
    /\ call.data # <<>>
    /\ \A i \in DOMAIN call.data : call.data[i] < AsNumber(call.value)
    /\ ret.value.p = Frac(100, 1)

DnaReturned == call.fn = "get_clean_time_dna" /\ ret # NotReturned
\* the profile the archetype table holds for the call's cluster ([] if none)
CallProfile ==
    IF call.cluster_id \in DOMAIN call.profiles
    THEN call.profiles[call.cluster_id]
    ELSE [num |-> <<>>, den |-> 1, nan |-> {}]
\* the station's normalized name is "wallst", the key of the drawn pulse cache
NamesWallSt == call.station_name \in {WallSt, WallStShout}
InPulseCache == NamesWallSt /\ call.pulses # NoTable
\* two pulses hold the same values hour by hour
SameValues(a, b) ==
    /\ Len(a.num) = Len(b.num)
    /\ a.nan = b.nan
    /\ \A i \in DOMAIN a.num : a.num[i] * b.den = b.num[i] * a.den
AllTwenty(dna) ==
    dna.morning = 20 /\ dna.lunch = 20 /\ dna.evening = 20 /\ dna.night = 20

\* C14 as stated: the station's own pulse is used when its normalized name is
\* in the pulse cache; otherwise the first 24 values of the cluster's profile
\* are used, and a profile shorter than 24 values keeps its values and gets
\* 20.0 only at the missing positions.
C14_ShortProfilePadded ==
    DnaReturned =>
        LET p == CallProfile
            n == Len(p.num)
            expected ==
                IF InPulseCache THEN call.pulses[normalize_key(WallSt)]
                ELSE [num |-> [i \in 1..24 |-> IF i <= n THEN p.num[i]
                                               ELSE 20 * p.den],
                      den |-> p.den, nan |-> {}]
        IN  SameValues(ret.value.day, expected) /\ ret.value.dna = buckets(expected)

\* C14 amended: the station's own pulse is used when its normalized name is
\* in the pulse cache; otherwise the first 24 values of the cluster's profile
\* are used when it has at least 24, and when it has fewer (or the cluster has
\* no profile) all 24 positions are 20.0 and the existing values are dropped.
C14_ShortProfileReplaced ==
    DnaReturned =>
        LET p == CallProfile
            n == Len(p.num)
            expected ==
                IF InPulseCache THEN call.pulses[normalize_key(WallSt)]
                ELSE [num |-> [i \in 1..24 |-> IF n >= 24 THEN p.num[i]
                                               ELSE 20 * p.den],
                      den |-> p.den, nan |-> {}]
        IN  /\ SameValues(ret.value.day, expected) /\ ret.value.dna = buckets(expected)
            /\ (~InPulseCache /\ n < 24) => AllTwenty(ret.value.dna)

\* a station without a pulse whose cluster profile has 23 values, none of
\* them 20.0, has got the flat TimeDNA
C14_Witness ==
    /\ DnaReturned
    /\ ~InPulseCache
    /\ Len(CallProfile.num) = 23
    /\ \A i \in 1..23 : CallProfile.num[i] # 20 * CallProfile.den
    /\ AllTwenty(ret.value.dna)

\* C15: when each of the 24 values of the pulse lies in [0, 100], each of the
\* four buckets is an integer in [0, 100]; a pulse of 24 values 20 yields
\* 20 in every bucket.
C15_BucketsInRange ==
    DnaReturned =>
        LET day == ret.value.day
            dna == ret.value.dna
        IN  (/\ Len(day.num) = 24
             /\ day.nan = {}
             /\ \A i \in 1..24 : 0 <= day.num[i] /\ day.num[i] <= 100 * day.den)
            => /\ \A b \in {"morning", "lunch", "evening", "night"} :
                     dna[b] \in 0..100
               /\ (\A i \in 1..24 : day.num[i] = 20 * day.den) => AllTwenty(dna)

\* a pulse of 24 values 100 has been bucketed, and so has a pulse of 24
\* values 20 in another behaviour: the state shown is the first
C15_Witness ==
    /\ DnaReturned
    /\ InPulseCache
    /\ ret.value.day.nan = {}
    /\ \A i \in 1..24 : ret.value.day.num[i] = 100 * ret.value.day.den
    /\ ret.value.dna.night = 100 /\ ret.value.dna.morning = 100

GenReturned == call.fn = "generate" /\ ret # NotReturned

\* the archetype of the first matching rule, in the order of the claim
FirstMatch ==
    LET v == call.vitality
        o == call.office
    IN  IF call.uni > 2 THEN "Academic"
        ELSE IF v.num > 75 * v.den /\ call.time_dna.night > 40 THEN "Nightlife"
        ELSE IF o.num > 70 * o.den THEN "Corporate"
        ELSE IF o.num > 50 * o.den /\ v.num > 50 * v.den THEN "Mixed-Use"
        ELSE IF call.time_dna.morning > 60 THEN "Commuter"
        ELSE IF v.num < 20 * v.den /\ o.num < 20 * o.den THEN "Residential"
        ELSE "Standard"

Title(archetype, borough) ==
    CASE archetype = "Academic"    -> borough \o " Student Hub"
      [] archetype = "Nightlife"   -> borough \o " Nightlife District"
      [] archetype = "Corporate"   -> borough \o " Business Center"
      [] archetype = "Mixed-Use"   -> "Dynamic " \o borough \o " Hub"
      [] archetype = "Commuter"    -> "Major Transit Anchor"
      [] archetype = "Residential" -> "Local Neighborhood Stop"
      [] archetype = "Standard"    -> borough \o " Local Stop"

\* C16: generate returns the persona title of the archetype of the first
\* matching rule: universities > 2 Academic, vitality > 75 and night > 40
\* Nightlife, office > 70 Corporate, office > 50 and vitality > 50 Mixed-Use,
\* morning > 60 Commuter, vitality < 20 and office < 20 Residential, else
\* Standard; universities 3 with office 90 is Academic, and vitality 90,
\* office 20, universities 0, night 55 in Manhattan is "Manhattan Nightlife
\* District".
C16_FirstMatchingRule ==
    GenReturned =>
        /\ ret.value.persona = Title(FirstMatch, call.borough)
        /\ (call.uni = 3 /\ call.office = Frac(90, 1))
              => ret.value.persona = call.borough \o " Student Hub"
        /\ (/\ call.vitality = Frac(90, 1) /\ call.office = Frac(20, 1)
            /\ call.uni = 0 /\ call.time_dna.night = 55
            /\ call.borough = "Manhattan")
              => ret.value.persona = "Manhattan Nightlife District"

\* the example of the specification has been generated
C16_Witness ==
    /\ GenReturned
    /\ call.vitality = Frac(90, 1) /\ call.office = Frac(20, 1) /\ call.uni = 0
    /\ call.time_dna = [morning |-> 30, lunch |-> 20, evening |-> 45, night |-> 55]
    /\ call.borough = "Manhattan"
    /\ ret.value.persona = "Manhattan Nightlife District"

\* the bucket holding the maximum, the earliest of them in the order morning,
\* lunch, evening, night
Dominant ==
    LET d == call.time_dna
        top == CHOOSE m \in {d.morning, d.lunch, d.evening, d.night} :
                  d.morning <= m /\ d.lunch <= m /\ d.evening <= m /\ d.night <= m
    IN  IF d.morning = top THEN "morning"
        ELSE IF d.lunch = top THEN "lunch"
        ELSE IF d.evening = top THEN "evening"
        ELSE "night"

SecondSentence(bucket) ==
    CASE bucket = "morning" ->
           "Passenger volume peaks in the Morning (6-10am), indicating a heavy outbound commuter flow."
      [] bucket = "lunch" ->
           "Activity is highest midday (11am-2pm), driven by local lunch crowds."
      [] bucket = "evening" ->
           "Passenger volume swells in the Evening (4-8pm) as the workday ends and retail activity picks up."
      [] bucket = "night" ->
           "Unusually high Late Night (10pm-4am) ridership signals a destination for after-hours entertainment."

\* C17: the description is the first sentence, one space, and the sentence of
\* the TimeDNA bucket with the maximum value, the earliest of morning, lunch,
\* evening, night when several buckets hold the maximum.
C17_PeakSentence ==
    GenReturned =>
        ret.value.description =
            vibe_desc(FirstMatch, call.borough, call.vitality)
                \o " " \o SecondSentence(Dominant)

\* lunch, evening and night tie for the maximum above the morning, and the
\* description names lunch
C17_Witness ==
    /\ GenReturned
    /\ call.time_dna = [morning |-> 60, lunch |-> 61, evening |-> 61, night |-> 61]
    /\ call.uni = 3
    /\ ret.value.description =
           "Defined by student foot traffic and nearby educational institutions."
               \o " " \o "Activity is highest midday (11am-2pm), driven by local lunch crowds."

PulseReturned == call.fn = "preload_data" /\ ret # NotReturned
\* the raw hours of a station: its hourly averages, 0 where there is none
RawHours(s) == ret.value.temp_cache[s]
\* the value of hour i of a pulse equals n / d
HourIs(pulse, i, n, d) == pulse.num[i] * d = n * pulse.den

\* C18: every station of the pulse cache has 24 values, each in [0, 100];
\* all-zero raw hours give 5.0 everywhere, constant nonzero raw hours give
\* 50.0 everywhere, and otherwise each hour is (raw - min) / (max - min) * 100,
\* so raw hours ranging over 10..110 give raw - 10, the minimum hour 0 and
\* the maximum hour 100.
C18_PulseNormalized ==
    PulseReturned =>
        \A s \in DOMAIN ret.value.STATION_PULSE_CACHE :
            LET pulse == ret.value.STATION_PULSE_CACHE[s]
                raw == RawHours(s)
                lo == SeqMin(raw)
                hi == SeqMax(raw)
            IN  /\ DOMAIN ret.value.STATION_PULSE_CACHE = DOMAIN ret.value.temp_cache
                /\ Len(pulse.num) = 24 /\ pulse.nan = {}
                /\ \A i \in 1..24 :
                      0 <= pulse.num[i] /\ pulse.num[i] <= 100 * pulse.den
                /\ (\A i \in 1..24 : raw[i] = 0)
                      => \A i \in 1..24 : HourIs(pulse, i, 5, 1)
                /\ (lo = hi /\ lo # 0)
                      => \A i \in 1..24 : HourIs(pulse, i, 50, 1)
                /\ lo # hi
                      => \A i \in 1..24 :
                            HourIs(pulse, i, (raw[i] - lo) * 100, hi - lo)
                /\ (lo = 10 /\ hi = 110)
                      => \A i \in 1..24 : HourIs(pulse, i, raw[i] - 10, 1)

\* raw hours at 10 with one hour at 60 and one at 110 have been scaled to
\* 0, 50 and 100
C18_Witness ==
    /\ PulseReturned
    /\ LET raw == RawHours(normalize_key(WallSt))
           pulse == ret.value.STATION_PULSE_CACHE[normalize_key(WallSt)]
       IN  /\ SeqMin(raw) = 10 /\ SeqMax(raw) = 110
           /\ \E i, j, k \in 1..24 :
                 /\ raw[i] = 10 /\ HourIs(pulse, i, 0, 1)
                 /\ raw[j] = 60 /\ HourIs(pulse, j, 50, 1)
                 /\ raw[k] = 110 /\ HourIs(pulse, k, 100, 1)

\* C19: when two overlapping first requests for two different stations with
\* feature rows have both returned, and neither save_cache raised, the file
\* is a document that holds, for each of the two stations, the record its
\* request stored.
C19_BothPersisted ==
    (/\ \A t \in Threads : Missed(t) /\ ~saveFailed[t]
     /\ station[1] # station[2])
        => \A t \in Threads :
              /\ Persisted(station[t])
              /\ file.data[station[t]] = wrote[t]

====
